---- MODULE Spec2Model ----
(***************************************************************************)
(* Asset pipelines of trunk: the CopyDir pipeline                          *)
(* (crates/pipelines/src/assets/copy_dir/mod.rs) and the Chain combinator  *)
(* (crates/pipelines/src/assets/chain.rs).                                 *)
(*                                                                         *)
(* Strings that the code treats as paths are sequences of one-character    *)
(* strings, so that split('/'), PathBuf::push, Path::components and        *)
(* Path::starts_with are computed the way std computes them on Unix.       *)
(***************************************************************************)
EXTENDS Integers, Sequences, FiniteSets, TLC

(***************************************************************************)
(* Bounds of the model.                                                    *)
(***************************************************************************)
\* number of run_once / try_push_input calls made before outputs()
MaxCalls == 2

(***************************************************************************)
(* Option and Result values.                                               *)
(***************************************************************************)
None == [some |-> FALSE]
Some(v) == [some |-> TRUE, v |-> v]

Ok(o) == [ok |-> TRUE, out |-> o]
Err(e) == [ok |-> FALSE, err |-> e]

(***************************************************************************)
(* std::path on Unix, on sequences of characters.                          *)
(***************************************************************************)
RECURSIVE SplitFrom(_, _, _)
SplitFrom(s, i, cur) ==
    IF i > Len(s) THEN <<cur>>
    ELSE IF s[i] = "/" THEN <<cur>> \o SplitFrom(s, i + 1, <<>>)
    ELSE SplitFrom(s, i + 1, Append(cur, s[i]))

\* str::split('/'): the segments between separators, empty ones included
Split(s) == SplitFrom(s, 1, <<>>)

\* Path::is_absolute (Unix: the path has a root)
IsAbsolute(p) == Len(p) > 0 /\ p[1] = "/"

\* PathBuf::push: an absolute argument replaces the buffer, otherwise the
\* argument is appended after a separator (none after an empty buffer or a
\* trailing separator)
Push(buf, p) ==
    IF IsAbsolute(p) THEN p
    ELSE IF Len(buf) > 0 /\ buf[Len(buf)] # "/" THEN buf \o <<"/">> \o p
    ELSE buf \o p

\* Path::join
Join(base, p) == Push(base, p)

RECURSIVE ExtendFrom(_, _, _)
ExtendFrom(buf, segs, i) ==
    IF i > Len(segs) THEN buf ELSE ExtendFrom(Push(buf, segs[i]), segs, i + 1)

\* PathBuf::extend: push every segment in turn
Extend(buf, segs) == ExtendFrom(buf, segs, 1)

RootDir == <<"/">>
CurDir == <<".">>
ParentDir == <<".", ".">>

RECURSIVE ComponentsFrom(_, _, _)
ComponentsFrom(segs, i, rooted) ==
    IF i > Len(segs) THEN <<>>
    ELSE LET seg == segs[i]
             rest == ComponentsFrom(segs, i + 1, rooted)
         IN IF seg = <<>> THEN rest
            ELSE IF seg = CurDir /\ (i > 1 \/ rooted) THEN rest
            ELSE <<seg>> \o rest

\* Path::components: RootDir first when rooted; empty segments and every
\* "." but a leading one are dropped; ".." is kept as it stands
Components(p) ==
    (IF IsAbsolute(p) THEN <<RootDir>> ELSE <<>>)
        \o ComponentsFrom(Split(p), 1, IsAbsolute(p))

IsPrefix(a, b) == Len(a) <= Len(b) /\ SubSeq(b, 1, Len(a)) = a

\* Path::starts_with: whole components of base are a prefix of those of p
StartsWith(p, base) == IsPrefix(Components(base), Components(p))

\* Path::file_name: the last component when it is a normal one
FileName(p) ==
    LET cs == Components(p)
    IN IF cs = <<>> THEN None
       ELSE LET l == cs[Len(cs)]
            IN IF l \in {RootDir, CurDir, ParentDir} THEN None ELSE Some(l)

RECURSIVE ResolveFrom(_, _, _)
ResolveFrom(cs, i, acc) ==
    IF i > Len(cs) THEN acc
    ELSE LET c == cs[i]
         IN IF c = CurDir THEN ResolveFrom(cs, i + 1, acc)
            ELSE IF c = ParentDir
              THEN IF acc = <<>> \/ acc[Len(acc)] = ParentDir
                     THEN ResolveFrom(cs, i + 1, Append(acc, c))
                   ELSE IF acc[Len(acc)] = RootDir
                     THEN ResolveFrom(cs, i + 1, acc)
                   ELSE ResolveFrom(cs, i + 1, SubSeq(acc, 1, Len(acc) - 1))
            ELSE ResolveFrom(cs, i + 1, Append(acc, c))

\* the components of p once "." and ".." segments are resolved
Resolve(p) == ResolveFrom(Components(p), 1, <<>>)

\* p lies inside (or is) dir once ".." segments are resolved
LiesInside(p, dir) == IsPrefix(Resolve(dir), Resolve(p))

RECURSIVE PathFrom(_, _)
PathFrom(cs, i) ==
    IF i > Len(cs) THEN <<>>
    ELSE (IF i > 2 THEN <<"/">> ELSE <<>>) \o cs[i] \o PathFrom(cs, i + 1)

\* the absolute path whose components are cs (cs[1] is RootDir)
PathOf(cs) == PathFrom(cs, 1)

(***************************************************************************)
(* The environment: the build configuration and the directories on disk.   *)
(***************************************************************************)
\* CopyDirConfig::output_dir
OutputDir == <<"/", "o">>

\* AssetInput::manifest_dir of every directive
ManifestDir == <<"/", "m">>

\* the directories that exist, as resolved components: /, /m and /m/d
Dirs == { <<RootDir>>, <<RootDir, <<"m">>>>, <<RootDir, <<"m">>, <<"d">>>> }

RECURSIVE CanonFrom(_, _, _)
CanonFrom(cs, i, acc) ==
    IF i > Len(cs) THEN Some(PathOf(acc))
    ELSE LET c == cs[i]
         IN IF c = RootDir THEN CanonFrom(cs, i + 1, <<RootDir>>)
            ELSE IF c = CurDir THEN CanonFrom(cs, i + 1, acc)
            ELSE IF c = ParentDir
              THEN CanonFrom(cs, i + 1,
                      IF Len(acc) > 1 THEN SubSeq(acc, 1, Len(acc) - 1) ELSE acc)
            ELSE IF Append(acc, c) \in Dirs
              THEN CanonFrom(cs, i + 1, Append(acc, c))
            ELSE None

\* fs::canonicalize: the absolute path without "." and "..", when every
\* directory on the way exists (the working directory is /)
Canonicalize(p) == CanonFrom(Components(p), 1, <<RootDir>>)

(***************************************************************************)
(* AssetInput and the directives the scanner may hand in.                  *)
(***************************************************************************)
ATTR_REL == "rel"
ATTR_HREF == "href"
ATTR_TARGET == "data-target-path"
TYPE_COPY_DIR == "copy-dir"

\* attrs.get(k)
Get(attrs, k) == IF k \in DOMAIN attrs THEN Some(attrs[k]) ELSE None

AssetInput(id, attrs) == [id |-> id, manifest_dir |-> ManifestDir, attrs |-> attrs]

Rel(r) == ATTR_REL :> r
Href(h) == ATTR_HREF :> h
Target(t) == ATTR_TARGET :> t

\* <link rel="copy-dir" href="d">
InDir == AssetInput(1, Rel(TYPE_COPY_DIR) @@ Href(<<"d">>))
\* <link rel="copy-dir" href="d" data-target-path="../e">
InEscape == AssetInput(2, Rel(TYPE_COPY_DIR) @@ Href(<<"d">>)
                            @@ Target(<<".", ".", "/", "e">>))
\* <link rel="copy-dir" href="d" data-target-path="/e">
InAbsTarget == AssetInput(3, Rel(TYPE_COPY_DIR) @@ Href(<<"d">>)
                               @@ Target(<<"/", "e">>))
\* <link rel="copy-dir">
InNoHref == AssetInput(4, Rel(TYPE_COPY_DIR))
\* <link rel="copy-dir" href="x">, and /m/x does not exist
InMissing == AssetInput(5, Rel(TYPE_COPY_DIR) @@ Href(<<"x">>))
\* <link rel="css" href="d">
InCss == AssetInput(6, Rel("css") @@ Href(<<"d">>))
\* <link rel="copy-dir" href="..">, whose canonical path / has no file name
InRoot == AssetInput(7, Rel(TYPE_COPY_DIR) @@ Href(<<".", ".">>))

\* <link data-target-path="t">, with neither rel nor href
InNoRel == AssetInput(8, Target(<<"t">>))

Inputs ==
    {InDir, InEscape, InAbsTarget, InNoHref, InMissing, InCss, InRoot, InNoRel}

\* <link rel="copy-dir" href="d" data-target-path="t">
InTarget == AssetInput(9, Rel(TYPE_COPY_DIR) @@ Href(<<"d">>) @@ Target(<<"t">>))
\* <link rel="copy-dir" href="/m/d">
InAbsHref == AssetInput(10, Rel(TYPE_COPY_DIR) @@ Href(<<"/", "m", "/", "d">>))

\* the directives handed to a CopyDir used on its own
Directives == Inputs \cup {InTarget, InAbsHref}

(***************************************************************************)
(* CopyDir: Input::try_from and run_with_input.                            *)
(***************************************************************************)
AssetNotMatched(input) == [reason |-> "AssetNotMatched", input |-> input]

\* Input::try_from taking the href out of the attributes before it looks at
\* the kind, so that a rejected input comes back without it
TryFromTakesHref(value) ==
    IF Get(value.attrs, ATTR_REL) # Some(TYPE_COPY_DIR)
      THEN Err(AssetNotMatched(
             [value EXCEPT !.attrs =
                [k \in DOMAIN value.attrs \ {ATTR_HREF} |-> value.attrs[k]]]))
    ELSE IF ~Get(value.attrs, ATTR_HREF).some
      THEN Err([reason |-> "PipelineLinkHrefNotFound", rel |-> TYPE_COPY_DIR])
    ELSE LET path == Extend(<<>>, Split(value.attrs[ATTR_HREF]))
         IN Ok([asset_input |-> value,
                path |-> IF ~IsAbsolute(path) THEN Join(value.manifest_dir, path)
                         ELSE path,
                target_path |-> Get(value.attrs, ATTR_TARGET)])

\* Input::try_from looking for the href before it looks at the kind
TryFromHrefFirst(value) ==
    IF ~Get(value.attrs, ATTR_HREF).some
      THEN Err([reason |-> "PipelineLinkHrefNotFound", rel |-> TYPE_COPY_DIR])
    ELSE IF Get(value.attrs, ATTR_REL) # Some(TYPE_COPY_DIR)
      THEN Err(AssetNotMatched(value))
    ELSE LET path == Extend(<<>>, Split(value.attrs[ATTR_HREF]))
         IN Ok([asset_input |-> value,
                path |-> IF ~IsAbsolute(path) THEN Join(value.manifest_dir, path)
                         ELSE path,
                target_path |-> Get(value.attrs, ATTR_TARGET)])

\* Input::try_from(AssetInput)
TryFrom(value) ==
    IF Get(value.attrs, ATTR_REL) # Some(TYPE_COPY_DIR)
      THEN Err(AssetNotMatched(value))
    ELSE IF ~Get(value.attrs, ATTR_HREF).some
      THEN Err([reason |-> "PipelineLinkHrefNotFound", rel |-> TYPE_COPY_DIR])
    ELSE LET path == Extend(<<>>, Split(value.attrs[ATTR_HREF]))
         IN Ok([asset_input |-> value,
                path |-> IF ~IsAbsolute(path) THEN Join(value.manifest_dir, path)
                         ELSE path,
                target_path |-> Get(value.attrs, ATTR_TARGET)])

\* CopyDirOutput(id)
CopyDirOutput(id) == [t |-> "CopyDirOutput", id |-> id]

\* run_with_input copying to the directory's own name whatever the target
\* path says
PrepareIgnoresTarget(input) ==
    LET canonical_path == Canonicalize(input.path)
    IN IF ~canonical_path.some
         THEN Err([reason |-> "FsNotExist", path |-> input.path])
       ELSE LET dir_name == FileName(canonical_path.v)
            IN IF ~dir_name.some
                 THEN Err([reason |-> "PathNoFileStem", path |-> canonical_path.v])
               ELSE Ok([src |-> canonical_path.v,
                        dst |-> Join(OutputDir, dir_name.v)])

\* run_with_input up to the call of copy_dir_recursive: the error it returns
\* before copying, or the source and destination it copies
Prepare(input) ==
    LET canonical_path == Canonicalize(input.path)
    IN IF ~canonical_path.some
         THEN Err([reason |-> "FsNotExist", path |-> input.path])
       ELSE LET dir_name == FileName(canonical_path.v)
            IN IF ~dir_name.some
                 THEN Err([reason |-> "PathNoFileStem", path |-> canonical_path.v])
               ELSE LET out_rel_path == IF input.target_path.some
                                          THEN input.target_path.v
                                        ELSE dir_name.v
                        dir_out == Join(OutputDir, out_rel_path)
                    IN IF ~StartsWith(dir_out, OutputDir)
                         THEN Err([reason |->
                                     "PipelineLinkDataTargetPathRelativeExpected",
                                   path |-> out_rel_path])
                       ELSE Ok([src |-> canonical_path.v, dst |-> dir_out])

\* the error of a failed copy_dir_recursive
CopyFailed(dst) == [reason |-> "FsCopyFailed", path |-> dst]

\* run_with_input from the return of copy_dir_recursive(copy.src, copy.dst)
\* on: copyOk is whether the copy succeeded
Finish(input, copy, copyOk) ==
    IF copyOk THEN Ok(CopyDirOutput(input.asset_input.id))
    ELSE Err(CopyFailed(copy.dst))

\* run_with_input: its result and the copies it invoked
RunWithInput(input, copyOk) ==
    LET p == Prepare(input)
    IN IF ~p.ok THEN [res |-> p, copies |-> {}]
       ELSE [res |-> Finish(input, p.out, copyOk), copies |-> {p.out}]

\* the Inputs that Input::try_from makes of the directives
Parsed == {TryFrom(i).out : i \in {j \in Directives : TryFrom(j).ok}}

\* Prepare, tabulated once for the inputs a queue can hold
Prepared == [input \in Parsed |-> Prepare(input)]

\* Prepare, looked up in the table where it has the input
PrepareTask(input) ==
    IF input \in DOMAIN Prepared THEN Prepared[input] ELSE Prepare(input)

\* the two filesystem operations of run_with_input
Canonicalized(path) == [op |-> "canonicalize", path |-> path]
Copied(copy) == [op |-> "copy_dir_recursive", src |-> copy.src, dst |-> copy.dst]

\* the filesystem operations run_with_input performs on input: it
\* canonicalizes the source and, if it gets that far, calls the copy
FsOps(input) ==
    LET p == PrepareTask(input)
    IN {Canonicalized(input.path)} \cup (IF p.ok THEN {Copied(p.out)} ELSE {})

(***************************************************************************)
(* The pipeline under study: Chain<Chain<G1, CopyDir>, G2>, where G1 and   *)
(* G2 are arbitrary implementations of the Asset contract.                 *)
(***************************************************************************)
Root == "root"
Chains == {"root", "inner"}
Generic == {"g1", "g2"}
Leaves == Generic \cup {"cd"}

\* Chain { first, second }
Tree == [root |-> [first |-> "inner", second |-> "g2"],
         inner |-> [first |-> "g1", second |-> "cd"]]

RECURSIVE LeavesOf(_)
LeavesOf(n) ==
    IF n \in Leaves THEN {n}
    ELSE LeavesOf(Tree[n].first) \cup LeavesOf(Tree[n].second)

\* ChainOutput::First, ChainOutput::Second
First(o) == [t |-> "First", inner |-> o]
Second(o) == [t |-> "Second", inner |-> o]

\* the unit value of Ok(())
Unit == [t |-> "()"]

\* what an arbitrary Asset may answer to an input it is offered
GenericResponses == {"accept", "notmatched", "invalid"}

GenericOutput(l, id) == [t |-> "Output", of |-> l, id |-> id]
GenericError(l) == [reason |-> "PipelineError", of |-> l]

\* the answers of the environment during one call: how G1 and G2 answer,
\* and whether copy_dir_recursive succeeds
Oracles == [g1 : GenericResponses, g2 : GenericResponses, copyOk : BOOLEAN]

\* run_once of an arbitrary Asset
GenericRunOnce(l, input, orc) ==
    [res |-> CASE orc[l] = "accept" -> Ok(GenericOutput(l, input.id))
               [] orc[l] = "notmatched" -> Err(AssetNotMatched(input))
               [] OTHER -> Err(GenericError(l)),
     copies |-> {}]

\* CopyDir::run_once
CopyDirRunOnce(input, orc) ==
    LET c == TryFrom(input)
    IN IF ~c.ok THEN [res |-> c, copies |-> {}]
       ELSE RunWithInput(c.out, orc.copyOk)

\* one entry of a call's trace: the node invoked, its argument, its result
Invocation(n, input, res) == [node |-> n, input |-> input, res |-> res]

RECURSIVE RunOnce(_, _, _)

\* Chain::run_once falling back to the second asset on every error
ChainRunOnceRetriesAnyError(n, input, orc) ==
    LET a == RunOnce(Tree[n].first, input, orc)
    IN IF a.res.ok
         THEN [res |-> Ok(First(a.res.out)), trace |-> a.trace, copies |-> a.copies]
       ELSE LET b == RunOnce(Tree[n].second,
                             IF a.res.err.reason = "AssetNotMatched"
                               THEN a.res.err.input ELSE input,
                             orc)
            IN [res |-> IF b.res.ok THEN Ok(Second(b.res.out)) ELSE b.res,
                trace |-> a.trace \o b.trace,
                copies |-> a.copies \cup b.copies]

\* Chain::run_once wrapping the first asset's output as Second
ChainRunOnceFirstAsSecond(n, input, orc) ==
    LET a == RunOnce(Tree[n].first, input, orc)
    IN IF a.res.ok
         THEN [res |-> Ok(Second(a.res.out)), trace |-> a.trace, copies |-> a.copies]
       ELSE IF a.res.err.reason = "AssetNotMatched"
         THEN LET b == RunOnce(Tree[n].second, a.res.err.input, orc)
              IN [res |-> IF b.res.ok THEN Ok(Second(b.res.out)) ELSE b.res,
                  trace |-> a.trace \o b.trace,
                  copies |-> a.copies \cup b.copies]
       ELSE [res |-> a.res, trace |-> a.trace, copies |-> a.copies]

\* Chain::run_once without the fallback: the first asset's result, whatever
\* it is
ChainRunOnceNoFallback(n, input, orc) ==
    LET a == RunOnce(Tree[n].first, input, orc)
    IN [res |-> IF a.res.ok THEN Ok(First(a.res.out)) ELSE a.res,
        trace |-> a.trace, copies |-> a.copies]

\* Chain::run_once offering the input to the second asset first
ChainRunOnceSecondFirst(n, input, orc) ==
    LET b == RunOnce(Tree[n].second, input, orc)
    IN IF b.res.ok
         THEN [res |-> Ok(Second(b.res.out)), trace |-> b.trace, copies |-> b.copies]
       ELSE IF b.res.err.reason = "AssetNotMatched"
         THEN LET a == RunOnce(Tree[n].first, b.res.err.input, orc)
              IN [res |-> IF a.res.ok THEN Ok(First(a.res.out)) ELSE a.res,
                  trace |-> b.trace \o a.trace,
                  copies |-> a.copies \cup b.copies]
       ELSE [res |-> b.res, trace |-> b.trace, copies |-> b.copies]

\* Chain::run_once
ChainRunOnce(n, input, orc) ==
    LET a == RunOnce(Tree[n].first, input, orc)
    IN IF a.res.ok
         THEN [res |-> Ok(First(a.res.out)), trace |-> a.trace, copies |-> a.copies]
       ELSE IF a.res.err.reason = "AssetNotMatched"
         THEN LET b == RunOnce(Tree[n].second, a.res.err.input, orc)
              IN [res |-> IF b.res.ok THEN Ok(Second(b.res.out)) ELSE b.res,
                  trace |-> a.trace \o b.trace,
                  copies |-> a.copies \cup b.copies]
       ELSE [res |-> a.res, trace |-> a.trace, copies |-> a.copies]

\* Asset::run_once of node n: its result, the invocations made (the node
\* first, then those of its children in the order made) and the copies made
RunOnce(n, input, orc) ==
    LET r == IF n \in Chains THEN ChainRunOnce(n, input, orc)
             ELSE LET l == IF n = "cd" THEN CopyDirRunOnce(input, orc)
                           ELSE GenericRunOnce(n, input, orc)
                  IN [res |-> l.res, trace |-> <<>>, copies |-> l.copies]
    IN [res |-> r.res,
        trace |-> <<Invocation(n, input, r.res)>> \o r.trace,
        copies |-> r.copies]

\* try_push_input of an arbitrary Asset on the queues qs
GenericTryPushInput(l, input, qs, orc) ==
    CASE orc[l] = "accept" ->
           [res |-> Ok(Unit), qs |-> [qs EXCEPT ![l] = Append(@, input)], fs |-> {}]
      [] orc[l] = "notmatched" ->
           [res |-> Err(AssetNotMatched(input)), qs |-> qs, fs |-> {}]
      [] OTHER -> [res |-> Err(GenericError(l)), qs |-> qs, fs |-> {}]

\* CopyDir::try_push_input queuing the input before it is validated
CopyDirTryPushInputEager(input, qs) ==
    LET c == TryFrom(input)
        queued == IF c.ok THEN c.out
                  ELSE [asset_input |-> input, path |-> <<>>, target_path |-> None]
    IN [res |-> IF c.ok THEN Ok(Unit) ELSE c,
        qs |-> [qs EXCEPT !["cd"] = Append(@, queued)], fs |-> {}]

\* CopyDir::try_push_input running the copy at once and queuing the input
CopyDirTryPushInputRunsNow(input, qs) ==
    LET c == TryFrom(input)
    IN IF ~c.ok THEN [res |-> c, qs |-> qs, fs |-> {}]
       ELSE [res |-> Ok(Unit), qs |-> [qs EXCEPT !["cd"] = Append(@, c.out)],
             fs |-> FsOps(c.out)]

\* CopyDir::try_push_input: its result, the queues afterwards and the
\* filesystem operations it performed
CopyDirTryPushInput(input, qs) ==
    LET c == TryFrom(input)
    IN IF ~c.ok THEN [res |-> c, qs |-> qs, fs |-> {}]
       ELSE [res |-> Ok(Unit), qs |-> [qs EXCEPT !["cd"] = Append(@, c.out)],
             fs |-> {}]

RECURSIVE TryPushInput(_, _, _, _)

\* Chain::try_push_input falling back to the second asset on every error
ChainTryPushInputRetriesAnyError(n, input, qs, orc) ==
    LET a == TryPushInput(Tree[n].first, input, qs, orc)
    IN IF a.res.ok THEN a
       ELSE LET b == TryPushInput(Tree[n].second,
                                  IF a.res.err.reason = "AssetNotMatched"
                                    THEN a.res.err.input ELSE input,
                                  a.qs, orc)
            IN [res |-> b.res, trace |-> a.trace \o b.trace, qs |-> b.qs,
                fs |-> a.fs \cup b.fs]

\* Chain::try_push_input offering the input to both assets
ChainTryPushInputOffersBoth(n, input, qs, orc) ==
    LET a == TryPushInput(Tree[n].first, input, qs, orc)
        b == TryPushInput(Tree[n].second, input, a.qs, orc)
    IN [res |-> IF a.res.ok THEN a.res ELSE b.res,
        trace |-> a.trace \o b.trace, qs |-> b.qs, fs |-> a.fs \cup b.fs]

\* Chain::try_push_input
ChainTryPushInput(n, input, qs, orc) ==
    LET a == TryPushInput(Tree[n].first, input, qs, orc)
    IN IF a.res.ok THEN a
       ELSE IF a.res.err.reason = "AssetNotMatched"
         THEN LET b == TryPushInput(Tree[n].second, a.res.err.input, a.qs, orc)
              IN [res |-> b.res, trace |-> a.trace \o b.trace, qs |-> b.qs,
                  fs |-> a.fs \cup b.fs]
       ELSE a

\* Asset::try_push_input of node n on the queues qs: its result, the
\* invocations made, the queues afterwards and the filesystem operations
\* performed
TryPushInput(n, input, qs, orc) ==
    LET r == IF n \in Chains THEN ChainTryPushInput(n, input, qs, orc)
             ELSE LET l == IF n = "cd" THEN CopyDirTryPushInput(input, qs)
                           ELSE GenericTryPushInput(n, input, qs, orc)
                  IN [res |-> l.res, trace |-> <<>>, qs |-> l.qs, fs |-> l.fs]
    IN [res |-> r.res,
        trace |-> <<Invocation(n, input, r.res)>> \o r.trace,
        qs |-> r.qs,
        fs |-> r.fs]

(***************************************************************************)
(* parse_public_url, on strings as sequences of characters.                *)
(***************************************************************************)
MaxUrlLen == 4

UrlChars == {"/", "a", "b"}

\* the values handed to parse_public_url
Urls == UNION {[1..n -> UrlChars] : n \in 0..MaxUrlLen}

\* str::starts_with('/') and str::ends_with('/')
StartsWithSlash(val) == Len(val) > 0 /\ val[1] = "/"
EndsWithSlash(val) == Len(val) > 0 /\ val[Len(val)] = "/"

\* parse_public_url deciding on the suffix by the first character
ParsePublicUrlSuffixByStart(val) ==
    LET prefix == IF ~StartsWithSlash(val) THEN <<"/">> ELSE <<>>
        suffix == IF ~StartsWithSlash(val) THEN <<"/">> ELSE <<>>
    IN Ok(prefix \o val \o suffix)

\* parse_public_url
ParsePublicUrl(val) ==
    LET prefix == IF ~StartsWithSlash(val) THEN <<"/">> ELSE <<>>
        suffix == IF ~EndsWithSlash(val) THEN <<"/">> ELSE <<>>
    IN Ok(prefix \o val \o suffix)

(***************************************************************************)
(* Output::finalize and the document.                                      *)
(***************************************************************************)
MaxElems == 3

\* the ids the elements of the document are tagged with
TrunkIds == {1, 2}

\* an element of the document: its name and its data-trunk-id, if it has one
Element(name, trunk_id) == [name |-> name, trunk_id |-> trunk_id]

Elements ==
    {Element("link", Some(id)) : id \in TrunkIds}
      \cup {Element("link", None), Element("meta", None)}

\* the documents of at most MaxElems elements in which no two elements are
\* tagged with the same id
Documents ==
    {d \in UNION {[1..n -> Elements] : n \in 0..MaxElems} :
        \A i, j \in DOMAIN d :
           (d[i].trunk_id.some /\ d[i].trunk_id = d[j].trunk_id) => i = j}

\* trunk_id_selector(id): the elements it matches
Selects(id, e) == e.trunk_id = Some(id)

\* a finalize that fails when the document has no element of that id
FinalizeMissingFails(output, d) ==
    IF \E k \in DOMAIN d : Selects(output.id, d[k])
      THEN [res |-> Ok(Unit),
            dom |-> SelectSeq(d, LAMBDA e : ~Selects(output.id, e))]
    ELSE [res |-> Err([reason |-> "ElementNotFound", id |-> output.id]), dom |-> d]

\* CopyDirOutput::finalize: its result and the document afterwards
Finalize(output, d) ==
    [res |-> Ok(Unit), dom |-> SelectSeq(d, LAMBDA e : ~Selects(output.id, e))]

RECURSIVE FinalizeOutput(_, _)
\* Output::finalize: a ChainOutput hands on to the output it holds
FinalizeOutput(o, d) ==
    IF o.t \in {"First", "Second"} THEN FinalizeOutput(o.inner, d)
    ELSE Finalize(o, d)

(***************************************************************************)
(* outputs(): the streams.                                                 *)
(***************************************************************************)
RECURSIVE Tagged(_, _, _)
\* map_ok(ChainOutput::First) / map_ok(ChainOutput::Second) on the way from
\* leaf l up to node n: an Ok item is wrapped, an Err item is left as it is
Tagged(n, l, item) ==
    IF n = l \/ ~item.ok THEN item
    ELSE IF l \in LeavesOf(Tree[n].first)
      THEN Ok(First(Tagged(Tree[n].first, l, item).out))
    ELSE Ok(Second(Tagged(Tree[n].second, l, item).out))

\* an iterator that hands the queue out from its back
IterNextFromBack(q, pos) == Len(q) - pos

\* stream::iter(inputs): the index of the item handed out after pos items
IterNext(q, pos) == pos + 1

\* a map closure that reports every failed item as a failed task
MapJoinAllTaskFailed(join) ==
    IF join.ok /\ join.out.ok THEN join.out
    ELSE Err([reason |-> "TokioTaskFailed"])

\* the map closure of CopyDir::outputs on what the JoinHandle resolved to
MapJoin(join) ==
    IF join.ok THEN join.out ELSE Err([reason |-> "TokioTaskFailed"])

\* a task that has not been spawned
NoTask == [st |-> "none"]

VARIABLES
    phase,    \* "build": the pipeline takes calls; "drain": outputs() was called
    inputs,   \* per leaf, its queued inputs (CopyDir::inputs)
    ncalls,   \* calls made so far
    last,     \* the last call: operation, argument, result, trace, copies
    pushed,   \* the AssetInputs whose try_push_input CopyDir answered Ok, in order
    copied,   \* every (src, dst) copy_dir_recursive was invoked with
    pos,      \* per leaf, the items its stream has taken from its queue
    pending,  \* CopyDir's stream: index of the task whose JoinHandle it awaits, or 0
    tasks,    \* CopyDir's spawned tasks, by queue index
    ended,    \* per leaf, whether its stream returned None
    yielded,  \* per node, the items its stream has yielded, in order
    out,      \* the items the merged stream has yielded, in order
    dom,      \* the document the outputs are finalized against
    accepted, \* per directive, the try_push_input calls on it that returned Ok
    fsops     \* the filesystem operations performed so far

vars == <<phase, inputs, ncalls, last, pushed, copied, pos, pending, tasks, ended,
          yielded, out, dom, accepted, fsops>>

NoCall == [op |-> "none"]

\* the pipeline as CopyDir::new and Chain { first, second } leave it
Built ==
    /\ phase = "build"
    /\ inputs = [l \in Leaves |-> <<>>]
    /\ ncalls = 0
    /\ last = NoCall
    /\ pushed = <<>>
    /\ accepted = [i \in Directives |-> 0]
    /\ copied = {}
    /\ fsops = {}
    /\ pos = [l \in Leaves |-> 0]
    /\ pending = 0
    /\ tasks = <<>>
    /\ ended = [l \in Leaves |-> FALSE]
    /\ yielded = [n \in Leaves \cup Chains |-> <<>>]
    /\ out = <<>>

\* a pipeline that is built, and a document that is not looked at
Init == Built /\ dom = <<>>

drainVars == <<pos, pending, tasks, ended, yielded, out>>

\* a merged stream that ends as soon as one of its two streams has ended
SelectEndsWithEither(a_done, b_done) == a_done \/ b_done

\* stream::select returns None once both of its streams have returned None
SelectDone(a_done, b_done) == a_done /\ b_done

RECURSIVE StreamDone(_)
\* the stream of node n has returned None
StreamDone(n) ==
    IF n \in Leaves THEN ended[n]
    ELSE SelectDone(StreamDone(Tree[n].first), StreamDone(Tree[n].second))

\* the caller drains the merged stream: it polls it until it returns None
Draining == phase = "drain" /\ ~StreamDone(Root)

\* leaf l yields item: every stream above it passes the item on at once,
\* wrapped by its map_ok
Yield(l, item) ==
    [n \in Leaves \cup Chains |->
        IF l \in LeavesOf(n)
          THEN Append(yielded[n], [leaf |-> l, item |-> Tagged(n, l, item)])
        ELSE yielded[n]]

\* the filesystem operations of a run_once with the invocations trace: those
\* of run_with_input, when CopyDir was reached and took the input
RunFsOps(trace) ==
    UNION {FsOps(TryFrom(trace[k].input).out) :
             k \in {j \in DOMAIN trace :
                      trace[j].node = "cd" /\ TryFrom(trace[j].input).ok}}

\* the caller runs one input, out of the set from, through the pipeline
\* rooted at node n
RunOnceFrom(n, from) ==
    /\ phase = "build"
    /\ ncalls < MaxCalls
    /\ \E input \in from, orc \in Oracles :
         \E r \in {RunOnce(n, input, orc)} :
            /\ last' = [op |-> "run_once", input |-> input, res |-> r.res,
                        trace |-> r.trace, copies |-> r.copies]
            /\ copied' = copied \cup r.copies
            /\ fsops' = fsops \cup RunFsOps(r.trace)
    /\ ncalls' = ncalls + 1
    /\ UNCHANGED <<dom, accepted, phase, inputs, pushed, drainVars>>

\* the caller offers one input, out of the set from, to the queues of the
\* pipeline rooted at node n
TryPushInputFrom(n, from) ==
    /\ phase = "build"
    /\ ncalls < MaxCalls
    /\ \E input \in from, orc \in Oracles :
         \E r \in {TryPushInput(n, input, inputs, orc)} :
            /\ last' = [op |-> "try_push_input", input |-> input, res |-> r.res,
                        trace |-> r.trace, copies |-> {}]
            /\ inputs' = r.qs
            /\ fsops' = fsops \cup r.fs
            /\ accepted' = IF r.res.ok THEN [accepted EXCEPT ![input] = @ + 1]
                           ELSE accepted
            /\ pushed' = IF \E k \in DOMAIN r.trace :
                                r.trace[k].node = "cd" /\ r.trace[k].res.ok
                           THEN Append(pushed, input) ELSE pushed
    /\ ncalls' = ncalls + 1
    /\ UNCHANGED <<dom, phase, copied, drainVars>>

\* the caller runs one input through the pipeline rooted at node n
RunOnceOn(n) == RunOnceFrom(n, Inputs)

\* the caller offers one input to the queues of the pipeline rooted at node n
TryPushInputOn(n) == TryPushInputFrom(n, Inputs)

\* run_once and try_push_input of the chain
RunOnceCall == RunOnceOn(Root)
TryPushInputCall == TryPushInputOn(Root)

\* run_once and try_push_input of a CopyDir used on its own
CopyDirRunOnceCall == RunOnceFrom("cd", Directives)
CopyDirTryPushInputCall == TryPushInputFrom("cd", Directives)

\* outputs(self): the pipeline is consumed and its streams are built
Outputs ==
    /\ phase = "build"
    /\ phase' = "drain"
    /\ tasks' = [k \in DOMAIN inputs["cd"] |-> NoTask]
    /\ last' = NoCall
    /\ ncalls' = 0
    /\ UNCHANGED <<dom, fsops, accepted, inputs, pushed, copied, pos, pending, ended,
                   yielded, out>>

\* a fail-fast stream: as PollNext, but it ends once it has yielded an Err
PollNextFailFast ==
    /\ Draining
    /\ ~ended["cd"]
    /\ pending = 0
    /\ IF /\ pos["cd"] < Len(inputs["cd"])
          /\ \A k \in DOMAIN out : out[k].leaf = "cd" => out[k].item.ok
         THEN LET k == IterNext(inputs["cd"], pos["cd"])
              IN /\ tasks' = [tasks EXCEPT ![k] =
                                [st |-> "spawned", input |-> inputs["cd"][k]]]
                 /\ pending' = k
                 /\ pos' = [pos EXCEPT !["cd"] = @ + 1]
                 /\ UNCHANGED ended
         ELSE /\ ended' = [ended EXCEPT !["cd"] = TRUE]
              /\ UNCHANGED <<tasks, pending, pos>>
    /\ UNCHANGED <<dom, fsops, accepted, phase, inputs, ncalls, last, pushed, copied, yielded, out>>

\* CopyDir's stream is polled with no task pending: it takes the next queued
\* input and spawns its task, or ends when the queue is used up
PollNext ==
    /\ Draining
    /\ ~ended["cd"]
    /\ pending = 0
    /\ IF pos["cd"] < Len(inputs["cd"])
         THEN LET k == IterNext(inputs["cd"], pos["cd"])
              IN /\ tasks' = [tasks EXCEPT ![k] =
                                [st |-> "spawned", input |-> inputs["cd"][k]]]
                 /\ pending' = k
                 /\ pos' = [pos EXCEPT !["cd"] = @ + 1]
                 /\ UNCHANGED ended
         ELSE /\ ended' = [ended EXCEPT !["cd"] = TRUE]
              /\ UNCHANGED <<tasks, pending, pos>>
    /\ UNCHANGED <<dom, fsops, accepted, phase, inputs, ncalls, last, pushed, copied, yielded, out>>

\* a spawned task runs run_with_input up to the call of copy_dir_recursive
TaskPrepare ==
    /\ \E k \in DOMAIN tasks :
         /\ tasks[k].st = "spawned"
         /\ LET p == PrepareTask(tasks[k].input)
            IN IF p.ok
                 THEN /\ tasks' = [tasks EXCEPT ![k] =
                                     [st |-> "copying", input |-> @.input,
                                      copy |-> p.out]]
                      /\ copied' = copied \cup {p.out}
                 ELSE /\ tasks' = [tasks EXCEPT ![k] =
                                     [st |-> "finished", input |-> @.input,
                                      join |-> Ok(p)]]
                      /\ UNCHANGED copied
         /\ fsops' = fsops \cup FsOps(tasks[k].input)
    /\ UNCHANGED <<dom, accepted, phase, inputs, ncalls, last, pushed, pos, pending,
                   ended, yielded, out>>

\* copy_dir_recursive returns and the task finishes with its result
TaskCopy ==
    /\ \E k \in DOMAIN tasks, copyOk \in BOOLEAN :
         /\ tasks[k].st = "copying"
         /\ tasks' = [tasks EXCEPT ![k] =
                        [st |-> "finished", input |-> @.input,
                         join |-> Ok(Finish(@.input, @.copy, copyOk))]]
    /\ UNCHANGED <<dom, fsops, accepted, phase, inputs, ncalls, last, pushed, copied, pos, pending,
                   ended, yielded, out>>

\* a running task panics or is cancelled: its JoinHandle resolves to a JoinError
TaskCrash ==
    /\ \E k \in DOMAIN tasks :
         /\ tasks[k].st \in {"spawned", "copying"}
         /\ tasks' = [tasks EXCEPT ![k] =
                        [st |-> "finished", input |-> @.input,
                         join |-> Err("JoinError")]]
    /\ UNCHANGED <<dom, fsops, accepted, phase, inputs, ncalls, last, pushed, copied, pos, pending,
                   ended, yielded, out>>

\* CopyDir's stream is polled and the awaited JoinHandle is ready: the
\* stream yields the mapped result
PollJoin ==
    /\ Draining
    /\ pending # 0
    /\ tasks[pending].st = "finished"
    /\ out' = Append(out, [leaf |-> "cd",
                           input |-> tasks[pending].input.asset_input,
                           item |-> Tagged(Root, "cd", MapJoin(tasks[pending].join))])
    /\ yielded' = Yield("cd", MapJoin(tasks[pending].join))
    /\ tasks' = [tasks EXCEPT ![pending].st = "joined"]
    /\ pending' = 0
    /\ UNCHANGED <<dom, fsops, accepted, phase, inputs, ncalls, last, pushed, copied, pos, ended>>

\* the stream of an arbitrary Asset yields the result of its next queued
\* input, or ends when its queue is used up
GenericPoll ==
    /\ Draining
    /\ \E l \in Generic :
         /\ ~ended[l]
         /\ IF pos[l] < Len(inputs[l])
              THEN /\ \E ok \in BOOLEAN :
                        LET input == inputs[l][pos[l] + 1]
                            item == IF ok THEN Ok(GenericOutput(l, input.id))
                                    ELSE Err(GenericError(l))
                        IN /\ out' = Append(out, [leaf |-> l, input |-> input,
                                                  item |-> Tagged(Root, l, item)])
                           /\ yielded' = Yield(l, item)
                   /\ pos' = [pos EXCEPT ![l] = @ + 1]
                   /\ UNCHANGED ended
              ELSE /\ ended' = [ended EXCEPT ![l] = TRUE]
                   /\ UNCHANGED <<pos, yielded, out>>
    /\ UNCHANGED <<dom, fsops, accepted, phase, inputs, ncalls, last, pushed, copied, pending, tasks>>

Next ==
    \/ RunOnceCall
    \/ TryPushInputCall
    \/ Outputs
    \/ PollNext
    \/ TaskPrepare
    \/ TaskCopy
    \/ TaskCrash
    \/ PollJoin
    \/ GenericPoll

Spec == Init /\ [][Next]_vars

\* a CopyDir used on its own
CopyDirNext ==
    \/ CopyDirRunOnceCall
    \/ CopyDirTryPushInputCall
    \/ Outputs
    \/ PollNext
    \/ TaskPrepare
    \/ TaskCopy
    \/ TaskCrash
    \/ PollJoin

\* a CopyDir used on its own, whose caller drains the stream to its end and
\* whose runtime runs every spawned task
CopyDirSpec ==
    /\ Init
    /\ [][CopyDirNext]_vars
    /\ WF_vars(PollNext)
    /\ WF_vars(PollJoin)
    /\ WF_vars(TaskPrepare \/ TaskCopy \/ TaskCrash)

\* the directives queued in the chain that is drained
DrainInputs == {InDir, InMissing, InCss}

\* try_push_input of the chain that is drained
QueueCall == TryPushInputFrom(Root, DrainInputs)

\* the chain as a queue that is filled and then drained
DrainNext ==
    \/ QueueCall
    \/ Outputs
    \/ PollNext
    \/ TaskPrepare
    \/ TaskCopy
    \/ TaskCrash
    \/ PollJoin
    \/ GenericPoll

\* the chain, whose caller drains the merged stream to its end: select keeps
\* polling each of its streams that has not ended, and the runtime runs
\* every spawned task
DrainSpec ==
    /\ Init
    /\ [][DrainNext]_vars
    /\ WF_vars(PollNext)
    /\ WF_vars(PollJoin)
    /\ WF_vars(GenericPoll)
    /\ WF_vars(TaskPrepare \/ TaskCopy \/ TaskCrash)

\* the outputs of CopyDir as they leave the chain and as they leave a
\* CopyDir used on its own
Finalizable ==
    {CopyDirOutput(id) : id \in TrunkIds}
      \cup {First(Second(CopyDirOutput(id))) : id \in TrunkIds}

\* the document writer finalizes an output against the document
FinalizeCall ==
    /\ \E o \in Finalizable :
         LET r == FinalizeOutput(o, dom)
         IN /\ dom' = r.dom
            /\ last' = [op |-> "finalize", output |-> o, before |-> dom,
                        res |-> r.res]
    /\ UNCHANGED <<phase, inputs, ncalls, pushed, copied, accepted, fsops, drainVars>>

FinalizeInit == Built /\ dom \in Documents

FinalizeNext == FinalizeCall

\* outputs finalized one after the other against a document
FinalizeSpec == FinalizeInit /\ [][FinalizeNext]_vars

\* parse_public_url is called on a value of --public-url
ParsePublicUrlCall ==
    /\ \E val \in Urls :
         last' = [op |-> "parse_public_url", val |-> val, res |-> ParsePublicUrl(val)]
    /\ UNCHANGED <<phase, inputs, ncalls, pushed, copied, accepted, fsops, dom,
                   drainVars>>

\* parse_public_url is called on what it returned
ParsePublicUrlAgain ==
    /\ last.op = "parse_public_url"
    /\ last' = [op |-> "parse_public_url", val |-> last.res.out,
                res |-> ParsePublicUrl(last.res.out)]
    /\ UNCHANGED <<phase, inputs, ncalls, pushed, copied, accepted, fsops, dom,
                   drainVars>>

UrlNext ==
    \/ ParsePublicUrlCall
    \/ ParsePublicUrlAgain

\* parse_public_url called on values of --public-url
UrlSpec == Init /\ [][UrlNext]_vars

(***************************************************************************)
(* Reading the last call.                                                  *)
(***************************************************************************)
LastTrace == IF last.op = "none" THEN <<>> ELSE last.trace

\* the invocations of node n during the last call
Entries(n) == {k \in DOMAIN LastTrace : LastTrace[k].node = n}

IsNotMatched(res) == ~res.ok /\ res.err.reason = "AssetNotMatched"
IsOtherError(res) == ~res.ok /\ res.err.reason # "AssetNotMatched"

\* the path-escape error on target path t
PathEscape(t) ==
    Err([reason |-> "PipelineLinkDataTargetPathRelativeExpected", path |-> t])

(***************************************************************************)
(* C1. The recursive copy is only ever invoked with a destination that     *)
(* lies inside output_dir once ".." segments are resolved, and a run_once  *)
(* that reaches CopyDir with the target path "../e" fails with the         *)
(* path-escape error and performs no copy.                                 *)
(***************************************************************************)
C1_CopyStaysInsideOutputDir ==
    /\ \A c \in copied : LiesInside(c.dst, OutputDir)
    /\ last.op = "run_once" =>
         \A k \in Entries("cd") :
            LastTrace[k].input = InEscape =>
               /\ LastTrace[k].res = PathEscape(InEscape.attrs[ATTR_TARGET])
               /\ last.copies = {}

(***************************************************************************)
(* C2. In run_once, when the first asset of a chain fails with a reason    *)
(* other than AssetNotMatched, the chain returns that error unchanged and  *)
(* its second asset is not invoked.                                        *)
(***************************************************************************)
C2_OtherErrorPropagates ==
    last.op = "run_once" =>
      \A n \in Chains : \A k \in Entries(n) : \A a \in Entries(Tree[n].first) :
         IsOtherError(LastTrace[a].res) =>
            /\ LastTrace[k].res = LastTrace[a].res
            /\ Entries(Tree[n].second) = {}

\* run_once: the inner chain failed for a missing href and the root chain
\* returned that error
C2_Witness ==
    /\ last.op = "run_once"
    /\ \E a \in Entries("inner") :
          /\ ~LastTrace[a].res.ok
          /\ LastTrace[a].res.err.reason = "PipelineLinkHrefNotFound"
    /\ ~last.res.ok
    /\ last.res.err.reason = "PipelineLinkHrefNotFound"

(***************************************************************************)
(* C3. In run_once, when the first asset of a chain succeeds with o, the   *)
(* chain succeeds with First(o) and its second asset is not invoked.       *)
(***************************************************************************)
C3_FirstSuccessWrapped ==
    last.op = "run_once" =>
      \A n \in Chains : \A k \in Entries(n) : \A a \in Entries(Tree[n].first) :
         LastTrace[a].res.ok =>
            /\ LastTrace[k].res = Ok(First(LastTrace[a].res.out))
            /\ Entries(Tree[n].second) = {}

\* run_once: CopyDir copied a directory as second of the inner chain, which
\* succeeded as first of the root chain
C3_Witness ==
    /\ last.op = "run_once"
    /\ last.res = Ok(First(Second(CopyDirOutput(InDir.id))))
    /\ \E a \in Entries("inner") : LastTrace[a].res.ok

(***************************************************************************)
(* C4. In run_once, when the first asset of a chain fails with             *)
(* AssetNotMatched, the second asset is invoked exactly once, on the input *)
(* carried by that error, and the chain returns the second asset's result, *)
(* a success o as Second(o).                                               *)
(***************************************************************************)
C4_NotMatchedFallsBack ==
    last.op = "run_once" =>
      \A n \in Chains : \A k \in Entries(n) : \A a \in Entries(Tree[n].first) :
         IsNotMatched(LastTrace[a].res) =>
            /\ Cardinality(Entries(Tree[n].second)) = 1
            /\ \A b \in Entries(Tree[n].second) :
                  /\ LastTrace[b].input = LastTrace[a].res.err.input
                  /\ LastTrace[k].res =
                        IF LastTrace[b].res.ok
                          THEN Ok(Second(LastTrace[b].res.out))
                        ELSE LastTrace[b].res

\* run_once: G1 did not match and CopyDir, second of the inner chain,
\* succeeded
C4_Witness ==
    /\ last.op = "run_once"
    /\ \E a \in Entries("g1") : IsNotMatched(LastTrace[a].res)
    /\ \E b \in Entries("cd") : LastTrace[b].res.ok
    /\ last.res.ok

(***************************************************************************)
(* C5. In run_once, when both assets of a chain fail with AssetNotMatched, *)
(* the chain fails with AssetNotMatched carrying the input the chain was   *)
(* given, unchanged.                                                       *)
(***************************************************************************)
C5_BothNotMatched ==
    last.op = "run_once" =>
      \A n \in Chains : \A k \in Entries(n) :
         \A a \in Entries(Tree[n].first) : \A b \in Entries(Tree[n].second) :
            (IsNotMatched(LastTrace[a].res) /\ IsNotMatched(LastTrace[b].res)) =>
               LastTrace[k].res = Err(AssetNotMatched(LastTrace[k].input))

\* run_once: G1, CopyDir and G2 all answered AssetNotMatched
C5_Witness ==
    /\ last.op = "run_once"
    /\ \A l \in Leaves : \E a \in Entries(l) : IsNotMatched(LastTrace[a].res)
    /\ last.res = Err(AssetNotMatched(last.input))

\* the queued inputs of the leaves below node n, in queues qs
QueuedBelow(n, qs) == [l \in LeavesOf(n) |-> qs[l]]

\* the number of inputs queued below node n, in queues qs
RECURSIVE CountBelow(_, _)
CountBelow(n, qs) ==
    IF n \in Leaves THEN Len(qs[n])
    ELSE CountBelow(Tree[n].first, qs) + CountBelow(Tree[n].second, qs)

\* a step that is a call of try_push_input
IsPushStep == ncalls' = ncalls + 1 /\ last'.op = "try_push_input"

(***************************************************************************)
(* C6. Chain.try_push_input: when the first asset accepts the input, it is *)
(* queued below the first asset, the second asset is not invoked and the   *)
(* call returns Ok; when the first asset fails with AssetNotMatched, the   *)
(* second asset is invoked once on the carried input and the call returns  *)
(* its result; any other error of the first asset is returned unchanged    *)
(* and the second asset is not invoked.                                    *)
(***************************************************************************)
C6_PushFallbackPolicy ==
    [][IsPushStep =>
        LET tr == last'.trace
            E(n) == {k \in DOMAIN tr : tr[k].node = n}
        IN \A n \in Chains : \A k \in E(n) :
             /\ Cardinality(E(Tree[n].first)) = 1
             /\ \A a \in E(Tree[n].first) :
                  IF tr[a].res.ok
                    THEN /\ tr[k].res = tr[a].res
                         /\ E(Tree[n].second) = {}
                         /\ CountBelow(Tree[n].first, inputs') =
                               CountBelow(Tree[n].first, inputs) + 1
                         /\ QueuedBelow(Tree[n].second, inputs') =
                               QueuedBelow(Tree[n].second, inputs)
                  ELSE IF IsNotMatched(tr[a].res)
                    THEN /\ Cardinality(E(Tree[n].second)) = 1
                         /\ \A b \in E(Tree[n].second) :
                               /\ tr[b].input = tr[a].res.err.input
                               /\ tr[k].res = tr[b].res
                  ELSE /\ tr[k].res = tr[a].res
                       /\ E(Tree[n].second) = {}
    ]_vars

\* try_push_input: G1 did not match, CopyDir failed for a missing href, and
\* the call returned that error without offering the input to G2
C6_Witness ==
    /\ last.op = "try_push_input"
    /\ \E a \in Entries("g1") : IsNotMatched(LastTrace[a].res)
    /\ \E b \in Entries("cd") :
          /\ ~LastTrace[b].res.ok
          /\ LastTrace[b].res.err.reason = "PipelineLinkHrefNotFound"
          /\ last.res = LastTrace[b].res
    /\ Entries("g2") = {}
    /\ \E l \in Leaves : inputs[l] # <<>>

(***************************************************************************)
(* C7. Whenever try_push_input of a node (CopyDir, or a chain at any       *)
(* depth) returns an error, AssetNotMatched or not, the queue of every     *)
(* leaf below that node is what it was before the call.                    *)
(***************************************************************************)
C7_RejectionLeavesQueues ==
    [][IsPushStep =>
        \A k \in DOMAIN last'.trace :
           ~last'.trace[k].res.ok =>
              QueuedBelow(last'.trace[k].node, inputs') =
                 QueuedBelow(last'.trace[k].node, inputs)
    ]_vars

\* try_push_input with an input queued in CopyDir: the inner chain returned
\* AssetNotMatched, then G2 failed with an error of its own
C7_Witness ==
    /\ last.op = "try_push_input"
    /\ \E a \in Entries("inner") : IsNotMatched(LastTrace[a].res)
    /\ \E b \in Entries("g2") : IsOtherError(LastTrace[b].res)
    /\ ~last.res.ok
    /\ inputs["cd"] # <<>>

(***************************************************************************)
(* Reading the drained stream.                                             *)
(***************************************************************************)
\* the items CopyDir's stream has yielded, in the order yielded
CdItems == SelectSeq(out, LAMBDA it : it.leaf = "cd")

\* the tasks that were spawned and whose result the stream has not taken
Alive == {k \in DOMAIN tasks : tasks[k].st \in {"spawned", "copying", "finished"}}

(***************************************************************************)
(* C8. CopyDir's stream yields one result per input CopyDir accepted in    *)
(* try_push_input and no other: the k-th item yielded is the result of the *)
(* task of the k-th accepted input (a success carries that input's id),    *)
(* and when the stream has ended there are as many items as accepted       *)
(* inputs.                                                                 *)
(***************************************************************************)
C8_OneResultPerAcceptedInput ==
    /\ Len(CdItems) <= Len(pushed)
    /\ \A k \in DOMAIN CdItems :
          /\ CdItems[k].input = pushed[k]
          /\ CdItems[k].item.ok =>
                CdItems[k].item = Ok(First(Second(CopyDirOutput(pushed[k].id))))
    /\ ended["cd"] => Len(CdItems) = Len(pushed)

\* two different accepted inputs, a stream drained to its end, two successes
C8_Witness ==
    /\ ended["cd"]
    /\ Len(pushed) >= 2
    /\ pushed[1].id # pushed[2].id
    /\ \A k \in DOMAIN CdItems : CdItems[k].item.ok

(***************************************************************************)
(* C9. One task is spawned per queued input, and while the task of an      *)
(* earlier input has not finished the task of a later queued input can be  *)
(* started, so that the two run at the same time.                          *)
(***************************************************************************)
C9_TasksRunConcurrently ==
    /\ ended["cd"] => \A k \in DOMAIN tasks : tasks[k].st = "joined"
    /\ \A i, j \in DOMAIN tasks :
          (/\ i < j
           /\ tasks[i].st \in {"spawned", "copying"}
           /\ tasks[j].st = "none") => ENABLED PollNext

\* what CopyDir::outputs does instead: at most one spawned task is there at
\* any time, the next is spawned after the result of the last was yielded
TasksRunOneAtATime == Cardinality(Alive) <= 1

(***************************************************************************)
(* C10. An Err item never ends CopyDir's stream early: when the stream has *)
(* ended, the task of every queued input was spawned and its result        *)
(* yielded; and a stream that is drained does end, whatever the earlier    *)
(* tasks returned.                                                         *)
(***************************************************************************)
C10_EveryQueuedInputGetsItsResult ==
    /\ [](ended["cd"] =>
            /\ \A k \in DOMAIN tasks : tasks[k].st = "joined"
            /\ Len(CdItems) = Len(inputs["cd"]))
    /\ (phase = "drain") ~> ended["cd"]

\* the stream has ended; the first task crashed, the second one succeeded
C10_Witness ==
    /\ ended["cd"]
    /\ Len(CdItems) >= 2
    /\ CdItems[1].item = Err([reason |-> "TokioTaskFailed"])
    /\ CdItems[2].item.ok

TaskFailed == Err([reason |-> "TokioTaskFailed"])

\* the errors run_with_input can finish with
OwnErrors ==
    {"FsNotExist", "PathNoFileStem", "PipelineLinkDataTargetPathRelativeExpected",
     "FsCopyFailed"}

(***************************************************************************)
(* C11. When CopyDir's stream yields the result of a task, a task that     *)
(* panicked or was cancelled gives an error of reason TokioTaskFailed, and *)
(* a task that finished with an error of its own gives that error          *)
(* unchanged, which is never TokioTaskFailed; a task that succeeded gives  *)
(* its output.                                                             *)
(***************************************************************************)
C11_JoinErrorBecomesTaskFailed ==
    [][(pending # 0 /\ pending' = 0) =>
          LET join == tasks[pending].join
              item == out'[Len(out')].item
          IN /\ Len(out') = Len(out) + 1
             /\ ~join.ok => item = TaskFailed
             /\ (join.ok /\ ~join.out.ok) =>
                   /\ item = join.out
                   /\ item.err.reason \in OwnErrors
             /\ (join.ok /\ join.out.ok) => item.ok]_vars

\* the stream has yielded the TokioTaskFailed of a crashed task and the own
\* error of a task that finished
C11_Witness ==
    /\ \E k \in DOMAIN CdItems :
          tasks[k].st = "joined" /\ ~tasks[k].join.ok /\ CdItems[k].item = TaskFailed
    /\ \E k \in DOMAIN CdItems :
          /\ tasks[k].st = "joined" /\ tasks[k].join.ok
          /\ ~CdItems[k].item.ok /\ CdItems[k].item.err.reason \in OwnErrors

\* the items the stream of chain n has yielded that came from its child c
From(n, c) == SelectSeq(yielded[n], LAMBDA y : y.leaf \in LeavesOf(c))

\* map_ok(ChainOutput::First) or map_ok(ChainOutput::Second), as side says,
\* on the items seq
MapOk(side, seq) ==
    [k \in DOMAIN seq |->
        [leaf |-> seq[k].leaf,
         item |-> IF ~seq[k].item.ok THEN seq[k].item
                  ELSE IF side = "First" THEN Ok(First(seq[k].item.out))
                  ELSE Ok(Second(seq[k].item.out))]]

\* every queued input of every leaf has its item in the merged stream
AllYielded == \A l \in Leaves : Len(From(Root, l)) = Len(inputs[l])

(***************************************************************************)
(* C12. The stream of a Chain of A and B yields every item of A's stream   *)
(* and every item of B's exactly once and no other, in A's order and in    *)
(* B's order, A's successes wrapped in First and B's in Second and errors  *)
(* as they are; it has ended exactly when both have ended, by then every   *)
(* queued input of every leaf has its item in it, and a stream that is     *)
(* drained does reach that end.                                            *)
(***************************************************************************)
C12_SelectMergesBothStreams ==
    /\ [](\A n \in Chains :
            LET a == Tree[n].first
                b == Tree[n].second
            IN /\ From(n, a) = MapOk("First", yielded[a])
               /\ From(n, b) = MapOk("Second", yielded[b])
               /\ Len(yielded[n]) = Len(yielded[a]) + Len(yielded[b])
               /\ StreamDone(n) <=> (StreamDone(a) /\ StreamDone(b)))
    /\ [](/\ Len(out) = Len(yielded[Root])
          /\ \A k \in DOMAIN out :
                /\ out[k].leaf = yielded[Root][k].leaf
                /\ out[k].item = yielded[Root][k].item)
    /\ [](StreamDone(Root) => AllYielded)
    /\ (phase = "drain") ~> (StreamDone(Root) /\ AllYielded)

\* the merged stream has ended after yielding a success of each branch, the
\* second branch's before the first's
C12_Witness ==
    /\ StreamDone(Root)
    /\ Len(out) = 2
    /\ out[1].leaf \in LeavesOf(Tree[Root].second)
    /\ out[1].item.ok /\ out[1].item.out.t = "Second"
    /\ out[2].leaf \in LeavesOf(Tree[Root].first)
    /\ out[2].item.ok /\ out[2].item.out.t = "First"

\* the copy a successful run on the converted input has made
CopyOf(input) ==
    LET canonical == Canonicalize(input.path).v
    IN [src |-> canonical,
        dst |-> IF input.target_path.some
                  THEN Join(OutputDir, input.target_path.v)
                ELSE Join(OutputDir, FileName(canonical).v)]

(***************************************************************************)
(* C13. A run of CopyDir that succeeds has copied the canonical source     *)
(* directory to output_dir joined with the target path when the directive  *)
(* has one, and to output_dir joined with the last segment of the          *)
(* canonical source path otherwise, and its output carries the             *)
(* directive's id; this holds for run_once and for the tasks of the        *)
(* stream.                                                                 *)
(***************************************************************************)
C13_SuccessfulRunCopiesToTarget ==
    /\ (last.op = "run_once" /\ last.res.ok) =>
          /\ last.copies = {CopyOf(TryFrom(last.input).out)}
          /\ last.res = Ok(CopyDirOutput(last.input.id))
    /\ \A k \in DOMAIN tasks :
          /\ tasks[k].st = "copying" => tasks[k].copy = CopyOf(tasks[k].input)
          /\ (/\ tasks[k].st \in {"finished", "joined"}
              /\ tasks[k].join.ok
              /\ tasks[k].join.out.ok) =>
                /\ CopyOf(tasks[k].input) \in copied
                /\ tasks[k].join.out =
                      Ok(CopyDirOutput(tasks[k].input.asset_input.id))

\* a successful run_once of the directive with the target path "t", after one
\* of a directive without target path
C13_Witness ==
    /\ last.op = "run_once" /\ last.res.ok
    /\ last.input = InTarget
    /\ last.copies = {[src |-> <<"/", "m", "/", "d">>, dst |-> <<"/", "o", "/", "t">>]}
    /\ [src |-> <<"/", "m", "/", "d">>, dst |-> <<"/", "o", "/", "d">>] \in copied

RECURSIVE IdOf(_)
\* the id a finalized output carries
IdOf(o) == IF o.t \in {"First", "Second"} THEN IdOf(o.inner) ELSE o.id

\* the positions of document d tagged with id
TaggedAt(id, d) == {k \in DOMAIN d : d[k].trunk_id = Some(id)}

(***************************************************************************)
(* C14. Finalizing a CopyDirOutput takes the element tagged with its id    *)
(* out of the document and changes nothing else: the other elements stay,  *)
(* in their order, and nothing is inserted. It returns Ok also when no     *)
(* element has that id, and then the document is left as it is, so that    *)
(* finalizing the same output again changes nothing.                       *)
(***************************************************************************)
C14_FinalizeRemovesOnlyItsElement ==
    last.op = "finalize" =>
       LET id == IdOf(last.output)
           at == TaggedAt(id, last.before)
       IN /\ last.res = Ok(Unit)
          /\ TaggedAt(id, dom) = {}
          /\ IF at = {} THEN dom = last.before
             ELSE \E k \in at :
                     dom = SubSeq(last.before, 1, k - 1)
                             \o SubSeq(last.before, k + 1, Len(last.before))
          /\ FinalizeOutput(last.output, dom) = [res |-> Ok(Unit), dom |-> dom]

\* an element was removed from between two others
C14_Witness ==
    /\ last.op = "finalize"
    /\ Len(last.before) = 3
    /\ TaggedAt(IdOf(last.output), last.before) = {2}
    /\ dom = <<last.before[1], last.before[3]>>

\* an output was finalized against a document that has no element of its id
C14_WitnessAgain ==
    /\ last.op = "finalize"
    /\ TaggedAt(IdOf(last.output), last.before) = {}
    /\ last.before # <<>>

\* the AssetInput an entry of leaf l's queue was made of
HeldInput(l, entry) == IF l = "cd" THEN entry.asset_input ELSE entry

\* the number of entries of leaf l's queue made of directive i
Occurrences(i, l) ==
    Cardinality({k \in DOMAIN inputs[l] : HeldInput(l, inputs[l][k]) = i})

RECURSIVE SumOver(_, _)
SumOver(f, S) ==
    IF S = {} THEN 0
    ELSE LET x == CHOOSE y \in S : TRUE IN f[x] + SumOver(f, S \ {x})

(***************************************************************************)
(* C15. After any sequence of try_push_input calls on the nested chain,    *)
(* every directive is held in the leaf queues as many times as a call on   *)
(* it returned Ok, each such entry in one queue only, a directive whose    *)
(* calls all returned an error is in no queue, and the lengths of the leaf *)
(* queues add up to the number of calls that returned Ok.                  *)
(***************************************************************************)
C15_QueuesHoldTheAcceptedInputs ==
    /\ \A i \in Directives :
          SumOver([l \in Leaves |-> Occurrences(i, l)], Leaves) = accepted[i]
    /\ CountBelow(Root, inputs) = SumOver(accepted, Directives)

\* one call returned Ok and one returned an error, on different directives
C15_Witness ==
    /\ last.op = "try_push_input" /\ ~last.res.ok
    /\ accepted[last.input] = 0
    /\ SumOver(accepted, Directives) = 1
    /\ CountBelow(Root, inputs) = 1

RECURSIVE LeafOrder(_)
\* the leaves below node n, from left to right
LeafOrder(n) ==
    IF n \in Leaves THEN <<n>>
    ELSE LeafOrder(Tree[n].first) \o LeafOrder(Tree[n].second)

\* the invocations of leaves during the last call, in the order made
LeafCalls == SelectSeq(LastTrace, LAMBDA v : v.node \in Leaves)

(***************************************************************************)
(* C16. In Chain<Chain<G1, CopyDir>, G2>, run_once and try_push_input      *)
(* offer the input to the leaves from left to right, G1, CopyDir, G2: the  *)
(* leaves invoked are the first ones of that order, each once, each on the *)
(* input the call was made with; every leaf but the last invoked answered  *)
(* AssetNotMatched; the last one invoked either answered something else or *)
(* is the rightmost leaf; and its answer is the result of the call (a      *)
(* success of run_once wrapped by the chains above it).                    *)
(***************************************************************************)
C16_LeavesAreOfferedLeftToRight ==
    last.op \in {"run_once", "try_push_input"} =>
       LET order == LeafOrder(Root)
           n == Len(LeafCalls)
       IN /\ n \in 1..Len(order)
          /\ \A k \in 1..n :
                /\ LeafCalls[k].node = order[k]
                /\ LeafCalls[k].input = last.input
                /\ k < n => IsNotMatched(LeafCalls[k].res)
          /\ n < Len(order) => ~IsNotMatched(LeafCalls[n].res)
          /\ last.res = IF last.op = "run_once"
                          THEN Tagged(Root, order[n], LeafCalls[n].res)
                        ELSE LeafCalls[n].res

\* a run_once in which G1 answered AssetNotMatched and CopyDir, the second
\* leaf, failed with an error of its own: G2 was not invoked
C16_Witness ==
    /\ last.op = "run_once"
    /\ Len(LeafCalls) = 2
    /\ IsNotMatched(LeafCalls[1].res)
    /\ IsOtherError(LeafCalls[2].res)
    /\ Entries("g2") = {}

\* the converted inputs whose task has started to run
Started == {tasks[k].input : k \in {j \in DOMAIN tasks :
                                      tasks[j].st \notin {"none", "spawned"}}}

\* the converted inputs whose task has returned from run_with_input or is
\* in its copy
Ran == {tasks[k].input :
          k \in {j \in DOMAIN tasks :
                   \/ tasks[j].st = "copying"
                   \/ tasks[j].st \in {"finished", "joined"} /\ tasks[j].join.ok}}

(***************************************************************************)
(* C17. While the pipeline is only being filled by try_push_input calls no *)
(* filesystem operation takes place, neither fs::canonicalize nor the      *)
(* recursive copy; the filesystem work of a queued input is done only      *)
(* once outputs() was called and the stream has been polled, by the task   *)
(* spawned for that input.                                                 *)
(***************************************************************************)
C17_NoFilesystemWorkBeforeDrain ==
    /\ phase = "build" => fsops = {} /\ copied = {}
    /\ fsops \subseteq UNION {FsOps(input) : input \in Started}
    /\ UNION {FsOps(input) : input \in Ran} \subseteq fsops
    /\ \A c \in copied : Copied(c) \in fsops

\* two directives are queued; the task of the first has done its filesystem
\* work, the task of the second has not been spawned
C17_Witness ==
    /\ phase = "drain"
    /\ Len(inputs["cd"]) = 2
    /\ tasks[1].st = "copying"
    /\ tasks[2].st = "none"
    /\ fsops = FsOps(inputs["cd"][1])

\* two accepted try_push_input calls, outputs() not yet called
C17_WitnessBuild ==
    /\ phase = "build"
    /\ Len(inputs["cd"]) = 2

HrefNotFound == Err([reason |-> "PipelineLinkHrefNotFound", rel |-> TYPE_COPY_DIR])

(***************************************************************************)
(* C18. CopyDir looks at the kind of a directive first. A directive whose  *)
(* rel is absent or is not "copy-dir" is answered with AssetNotMatched     *)
(* carrying the directive unchanged, whatever else it has or lacks; a      *)
(* directive whose rel is "copy-dir" is never answered with                *)
(* AssetNotMatched: without href it is answered with the missing-href      *)
(* error naming "copy-dir", and then no asset after CopyDir is invoked.    *)
(***************************************************************************)
C18_KindIsCheckedFirst ==
    \A k \in Entries("cd") :
       LET v == LastTrace[k]
           rel == Get(v.input.attrs, ATTR_REL)
           href == Get(v.input.attrs, ATTR_HREF)
       IN /\ rel # Some(TYPE_COPY_DIR) => v.res = Err(AssetNotMatched(v.input))
          /\ rel = Some(TYPE_COPY_DIR) =>
                /\ ~IsNotMatched(v.res)
                /\ ~href.some =>
                      /\ v.res = HrefNotFound
                      /\ last.res = HrefNotFound
                      /\ k = Len(LastTrace)
                /\ (href.some /\ last.op = "try_push_input") => v.res.ok

\* a copy-dir directive without href reached CopyDir: the call failed with
\* the missing-href error and G2 was not invoked
C18_Witness ==
    /\ last.op \in {"run_once", "try_push_input"}
    /\ last.input = InNoHref
    /\ Entries("cd") # {}
    /\ Entries("g2") = {}
    /\ last.res = HrefNotFound

\* a directive without rel reached CopyDir and was handed on to G2
C18_WitnessNoRel ==
    /\ last.op \in {"run_once", "try_push_input"}
    /\ last.input = InNoRel
    /\ \E k \in Entries("cd") : LastTrace[k].res = Err(AssetNotMatched(InNoRel))
    /\ Entries("g2") # {}

(***************************************************************************)
(* C19. The href of a queued directive is resolved against manifest_dir    *)
(* only when it is not absolute: a relative href gives manifest_dir joined *)
(* with its segments, and an href that starts with "/" gives that same     *)
(* absolute path, not prefixed by manifest_dir.                            *)
(***************************************************************************)
C19_AbsoluteHrefIsKept ==
    \A k \in DOMAIN inputs["cd"] :
       LET input == inputs["cd"][k]
           href == input.asset_input.attrs[ATTR_HREF]
       IN IF IsAbsolute(href)
            THEN Components(input.path) = Components(href)
          ELSE input.path = Extend(input.asset_input.manifest_dir, Split(href))

\* what Input::try_from does instead: the path built from the segments of
\* an href is never absolute, so every href ends up below manifest_dir
HrefIsAlwaysJoined ==
    \A k \in DOMAIN inputs["cd"] :
       LET input == inputs["cd"][k]
           href == input.asset_input.attrs[ATTR_HREF]
       IN /\ ~IsAbsolute(Extend(<<>>, Split(href)))
          /\ StartsWith(input.path, input.asset_input.manifest_dir)

\* the directive with the absolute href "/m/d" is queued with the path
\* "/m/m/d"
AbsoluteHrefQueued ==
    \E k \in DOMAIN inputs["cd"] :
       /\ inputs["cd"][k].asset_input = InAbsHref
       /\ inputs["cd"][k].path = <<"/", "m", "/", "m", "/", "d">>

(***************************************************************************)
(* C20. parse_public_url never fails; what it returns is its argument with *)
(* a "/" put in front exactly when the argument does not start with "/"    *)
(* and a "/" put behind exactly when it does not end with "/"; the result  *)
(* starts and ends with "/"; an argument that starts and ends with "/" is  *)
(* returned as it is; and applying it to its result returns the result.    *)
(***************************************************************************)
C20_PublicUrlIsWrappedInSlashes ==
    last.op = "parse_public_url" =>
       LET val == last.val
           n == Len(val)
           starts == n > 0 /\ val[1] = "/"
           ends == n > 0 /\ val[n] = "/"
           front == IF starts THEN 0 ELSE 1
           back == IF ends THEN 0 ELSE 1
       IN /\ last.res.ok
          /\ LET url == last.res.out
             IN /\ Len(url) = front + n + back
                /\ \A k \in 1..n : url[front + k] = val[k]
                /\ url[1] = "/"
                /\ url[Len(url)] = "/"
                /\ (starts /\ ends) => url = val
                /\ ParsePublicUrl(url) = Ok(url)

\* "/a" came back as "/a/": nothing in front, a "/" behind
C20_Witness ==
    /\ last.op = "parse_public_url"
    /\ last.val = <<"/", "a">>
    /\ last.res = Ok(<<"/", "a", "/">>)

\* the empty value came back as "//"
C20_WitnessEmpty ==
    /\ last.op = "parse_public_url"
    /\ last.val = <<>>
    /\ last.res = Ok(<<"/", "/">>)

====
